---------------------------- MODULE Spec2Model ----------------------------
(***************************************************************************)
(* A model of three parts of librobinhood:                                 *)
(*   - the URI resolver, rbh_backend_from_uri (src/src/utils/uri.c);       *)
(*   - the bounded ID copy, rbh_id_copy (declared in robinhood/id.h);      *)
(*   - the Lustre extra-attributes callback, lustre_ns_xattrs_callback     *)
(*     (src/backends/lustre/lustre.c).                                     *)
(* Each part has its own specification (SpecUri, SpecId, SpecLustre); the  *)
(* variables of the other parts stay at their idle values.                 *)
(*                                                                         *)
(* C strings are sequences of bytes ending with the terminator 0; the NULL *)
(* pointer is the empty sequence, which is no C string.                    *)
(***************************************************************************)
EXTENDS Integers, Sequences, FiniteSets, TLC

VARIABLES
    \* ---- URI resolver -------------------------------------------------
    upc,        \* position in rbh_backend_from_uri and its callees
    raw_parsed, \* the raw URI as rbh_parse_raw_uri filled it
    raw_uri,    \* struct rbh_raw_uri raw_uri (its fragment)
    path,       \* char *path
    uri,        \* struct rbh_uri uri
    heap,       \* the backends created so far; a handle is an index
    backend,    \* struct rbh_backend *backend (0 is NULL)
    branch,     \* struct rbh_backend *branch (0 is NULL)
    fsentry,    \* struct rbh_fsentry *fsentry
    dlerr,      \* the text dlerror() returns
    calls,      \* the calls made so far, in order
    failed,     \* the step that failed, and the errno it set
    outcome,    \* what the resolution ended with
    \* ---- rbh_id_copy --------------------------------------------------
    id_mem,     \* the bytes of the caller's buffer (-1: never written)
    id_buffer,  \* *buffer, as an offset from the start of the buffer
    id_bufsize, \* *bufsize
    id_last,    \* the last call: its arguments, its result, the state before
    \* ---- lustre_ns_xattrs_callback -------------------------------------
    lpc,          \* position in lustre_ns_xattrs_callback
    mode,         \* the entry's type, from its mode
    is_symlink,   \* static __thread bool is_symlink
    is_dir,       \* static __thread bool is_dir
    is_reg,       \* static __thread bool is_reg
    layout,       \* what the entry's layout holds (the llapi_layout_* answers)
    values,       \* static __thread struct rbh_sstack *_values, as its pushes
    pairs,        \* struct rbh_value_pair *pairs: slot -> (key, value)
    writes,       \* the slots of pairs written, in order
    count,        \* int count of lustre_ns_xattrs_callback
    ret,          \* what lustre_ns_xattrs_callback returned
    data,         \* struct iterator_data data of xattrs_get_layout
    lay,          \* the other locals of xattrs_get_layout
    events,       \* allocations, frees and arena pushes of the workspaces
    inode_xattrs, \* _inode_xattrs[0 .. *_inode_xattrs_count - 1]
    \* ---- shared -------------------------------------------------------
    errno       \* the thread's errno

uriVars == <<upc, raw_parsed, raw_uri, path, uri, heap, backend, branch,
             fsentry, dlerr, calls, failed, outcome>>

idVars == <<id_mem, id_buffer, id_bufsize, id_last>>

luVars == <<lpc, mode, is_symlink, is_dir, is_reg, layout, values, pairs,
            writes, count, ret, data, lay, events, inode_xattrs>>

vars == <<uriVars, idVars, luVars, errno>>

\* What a part's actions leave alone: the other parts.
notUri == <<idVars, luVars>>
notId == <<uriVars, luVars>>
notLustre == <<uriVars, idVars>>

\* ------------------------------------------------------------------------
\* Bounds and constants
\* ------------------------------------------------------------------------

\* The longest fragment rbh_parse_raw_uri hands out (terminator excluded).
MaxFragLen == 3

NULL == <<>>

ENODATA == 61
RBH_FP_ID == 1
EXIT_FAILURE == 1
LBRACKET == 91

\* '%', '2', '[', 'a'
FragChars == {37, 50, 91, 97}

\* What a failing callee leaves in errno (ENOENT, EINVAL).
StepErrnos == {2, 22}

\* What a callee may leave in errno although it succeeded (EAGAIN).
ClobberErrnos == {11}

\* errno after a call that succeeded: untouched, or clobbered.
AfterCall(e) == {e} \cup ClobberErrnos

RECURSIVE BitAnd(_, _)
BitAnd(a, b) ==
    IF a = 0 \/ b = 0 THEN 0
    ELSE (IF a % 2 = 1 /\ b % 2 = 1 THEN 1 ELSE 0)
         + 2 * BitAnd(a \div 2, b \div 2)

CStrings(chars, n) ==
    { Append(s, 0) : s \in UNION { [1..k -> chars] : k \in 0..n } }

Fragments == {NULL} \cup CStrings(FragChars, MaxFragLen)

UriIds == {<<>>, <<7>>, <<7, 8>>}
EntryIds == {<<1>>, <<2, 3>>}
EntryMasks == {0, 1, 2, 3}

NoFsentry == [valid |-> FALSE, mask |-> 0, id |-> <<>>, freed |-> 0]
NoUri == [backend |-> "", fsname |-> "", id |-> <<>>]
NoFailure == [step |-> "", err |-> 0]
NoOutcome == [kind |-> "none", status |-> 0, errnum |-> 0, text |-> <<>>,
              backend |-> 0]

Call(fn, arg, r) == [fn |-> fn, arg |-> arg, ret |-> r]

\* error(EXIT_FAILURE, errnum, text...): report and exit.
Exited(errnum, text) ==
    [kind |-> "exit", status |-> EXIT_FAILURE, errnum |-> errnum,
     text |-> text, backend |-> 0]

Returned(b) ==
    [kind |-> "return", status |-> 0, errnum |-> 0, text |-> <<>>,
     backend |-> b]

\* ------------------------------------------------------------------------
\* rbh_percent_decode (robinhood/utils.h): decodes in place, fails on a '%'
\* that is not followed by two hexadecimal digits.
\* ------------------------------------------------------------------------

HexVal(c) ==
    IF c \in 48..57 THEN c - 48
    ELSE IF c \in 97..102 THEN c - 87
    ELSE IF c \in 65..70 THEN c - 55
    ELSE -1

RECURSIVE PercentDecode(_)
PercentDecode(s) ==
    IF s = <<>> \/ Head(s) = 0 THEN [ok |-> TRUE, str |-> <<0>>]
    ELSE IF Head(s) # 37
    THEN LET rest == PercentDecode(Tail(s))
         IN  [ok |-> rest.ok, str |-> <<Head(s)>> \o rest.str]
    ELSE IF Len(s) < 3 \/ HexVal(s[2]) < 0 \/ HexVal(s[3]) < 0
    THEN [ok |-> FALSE, str |-> s]
    ELSE LET rest == PercentDecode(SubSeq(s, 4, Len(s)))
         IN  [ok |-> rest.ok,
              str |-> <<16 * HexVal(s[2]) + HexVal(s[3])>> \o rest.str]

\* ------------------------------------------------------------------------
\* rbh_backend_from_uri
\* ------------------------------------------------------------------------

\* uri.c:113, the fragment is an entry path
IsEntryPathMutant(fragment) == fragment # NULL
IsEntryPath(fragment) == fragment # NULL /\ fragment[1] # LBRACKET

\* uri.c:71, the fsentry carries its ID
HasIdMutant(mask) == TRUE
HasId(mask) == BitAnd(mask, RBH_FP_ID) # 0

\* uri.c:61,78,80, which way backend_from_uri goes
BranchCaseMutant(p, u) ==
    IF p # NULL THEN "path" ELSE "none"
BranchCase(p, u) ==
    IF p # NULL THEN "path"
    ELSE IF Len(u.id) # 0 THEN "id"
    ELSE "none"

\* uri.c:75-77 and 84-86, errno = save_errno after a cleanup call
RestoreErrnoMutant(save_errno, current) == current
RestoreErrno(save_errno, current) == save_errno

\* uri.c:85, the backend that is destroyed once the branch is made
DestroyedBackendMutant(unbranched, branched) == branched
DestroyedBackend(unbranched, branched) == unbranched

Fail(step, e, text) ==
    /\ upc' = "exited"
    /\ failed' = [step |-> step, err |-> e]
    /\ outcome' = Exited(e, text)

\* rbh_backend_from_uri, lines 105-116: the raw parse and the fragment
ParseRawUri ==
    /\ upc = "rbh_parse_raw_uri"
    /\ \/ \E e \in StepErrnos :
            /\ calls' = Append(calls, Call("rbh_parse_raw_uri", <<>>, -1))
            /\ errno' = e
            /\ Fail("rbh_parse_raw_uri", e, <<"rbh_parse_raw_uri">>)
            /\ UNCHANGED <<raw_parsed, raw_uri, path>>
       \/ \E f \in Fragments, e \in AfterCall(errno) :
            /\ calls' = Append(calls, Call("rbh_parse_raw_uri", <<>>, 0))
            /\ errno' = e
            /\ raw_parsed' = [fragment |-> f]
            /\ IF IsEntryPath(f)
               THEN /\ path' = f
                    /\ raw_uri' = [fragment |-> NULL]
               ELSE /\ path' = NULL
                    /\ raw_uri' = [fragment |-> f]
            /\ upc' = "rbh_parse_uri"
            /\ UNCHANGED <<failed, outcome>>
    /\ UNCHANGED <<uri, heap, backend, branch, fsentry, dlerr>>
    /\ UNCHANGED notUri

\* backend_from_raw_uri, lines 98-99
ParseUri ==
    /\ upc = "rbh_parse_uri"
    /\ \/ \E e \in StepErrnos :
            /\ calls' = Append(calls,
                               Call("rbh_parse_uri", <<raw_uri.fragment>>, -1))
            /\ errno' = e
            /\ Fail("rbh_parse_uri", e, <<"rbh_parse_uri">>)
            /\ UNCHANGED uri
       \/ \E id \in UriIds, e \in AfterCall(errno) :
            \* an ID comes from the fragment only
            /\ raw_uri.fragment = NULL => id = <<>>
            /\ calls' = Append(calls,
                               Call("rbh_parse_uri", <<raw_uri.fragment>>, 0))
            /\ errno' = e
            /\ uri' = [backend |-> "posix", fsname |-> "/mnt/fs", id |-> id]
            /\ upc' = "rbh_backend_plugin_import"
            /\ UNCHANGED <<failed, outcome>>
    /\ UNCHANGED <<raw_parsed, raw_uri, path, heap, backend, branch, fsentry,
                   dlerr>>
    /\ UNCHANGED notUri

\* backend_plugin_import, lines 23-39 (errno is 0 during the import)
PluginImport ==
    /\ upc = "rbh_backend_plugin_import"
    /\ \/ \E e \in StepErrnos :
            /\ calls' = Append(calls, Call("rbh_backend_plugin_import",
                                           <<uri.backend>>, 0))
            /\ errno' = e
            /\ Fail("rbh_backend_plugin_import", e,
                    <<"rbh_backend_plugin_import">>)
            /\ UNCHANGED dlerr
       \/ \E text \in {"cannot open shared object file"} :
            \* dlopen() failed: errno is left at 0, dlerror() has the text
            /\ calls' = Append(calls, Call("rbh_backend_plugin_import",
                                           <<uri.backend>>, 0))
            /\ errno' = 0
            /\ dlerr' = text
            /\ Fail("rbh_backend_plugin_import", 0,
                    <<"rbh_backend_plugin_import: %s", text>>)
       \/ \E e \in AfterCall(0) :
            /\ calls' = Append(calls, Call("rbh_backend_plugin_import",
                                           <<uri.backend>>, 1))
            /\ errno' = RestoreErrno(errno, e)
            /\ upc' = "rbh_backend_plugin_new"
            /\ UNCHANGED <<dlerr, failed, outcome>>
    /\ UNCHANGED <<raw_parsed, raw_uri, path, uri, heap, backend, branch,
                   fsentry>>
    /\ UNCHANGED notUri

\* backend_new, lines 47-51, and backend_from_uri, line 57
PluginNew ==
    /\ upc = "rbh_backend_plugin_new"
    /\ \/ \E e \in StepErrnos :
            /\ calls' = Append(calls, Call("rbh_backend_plugin_new",
                                           <<uri.backend, uri.fsname>>, 0))
            /\ errno' = e
            /\ Fail("rbh_backend_plugin_new", e, <<"rbh_backend_plugin_new">>)
            /\ UNCHANGED <<heap, backend>>
       \/ \E e \in AfterCall(errno) :
            /\ heap' = Append(heap, [type |-> uri.backend,
                                     fsname |-> uri.fsname,
                                     root |-> <<>>, destroyed |-> 0])
            /\ backend' = Len(heap) + 1
            /\ calls' = Append(calls, Call("rbh_backend_plugin_new",
                                           <<uri.backend, uri.fsname>>,
                                           Len(heap) + 1))
            /\ errno' = e
            /\ upc' = CASE BranchCase(path, uri) = "path"
                             -> "rbh_percent_decode"
                        [] BranchCase(path, uri) = "id"
                             -> "rbh_backend_branch"
                        [] OTHER -> "return_backend"
            /\ UNCHANGED <<failed, outcome>>
    /\ UNCHANGED <<raw_parsed, raw_uri, path, uri, branch, fsentry, dlerr>>
    /\ UNCHANGED notUri

\* backend_from_uri, lines 64-65
PercentDecodePath ==
    /\ upc = "rbh_percent_decode"
    /\ LET d == PercentDecode(path)
       IN  IF d.ok
           THEN \E e \in AfterCall(errno) :
                  /\ calls' = Append(calls,
                                     Call("rbh_percent_decode", <<path>>, 0))
                  /\ path' = d.str
                  /\ errno' = e
                  /\ upc' = "rbh_backend_fsentry_from_path"
                  /\ UNCHANGED <<failed, outcome>>
           ELSE \E e \in StepErrnos :
                  /\ calls' = Append(calls,
                                     Call("rbh_percent_decode", <<path>>, -1))
                  /\ errno' = e
                  /\ Fail("rbh_percent_decode", e, <<"rbh_percent_decode">>)
                  /\ UNCHANGED path
    /\ UNCHANGED <<raw_parsed, raw_uri, uri, heap, backend, branch, fsentry,
                   dlerr>>
    /\ UNCHANGED notUri

\* backend_from_uri, lines 67-72
FsentryFromPath ==
    /\ upc = "rbh_backend_fsentry_from_path"
    /\ \/ \E e \in StepErrnos :
            /\ calls' = Append(calls, Call("rbh_backend_fsentry_from_path",
                                           <<backend, path>>, 0))
            /\ errno' = e
            /\ Fail("rbh_backend_fsentry_from_path", e,
                    <<"rbh_backend_fsentry_from_path">>)
            /\ UNCHANGED fsentry
       \/ \E m \in EntryMasks, id \in EntryIds, e \in AfterCall(errno) :
            /\ calls' = Append(calls, Call("rbh_backend_fsentry_from_path",
                                           <<backend, path>>, 1))
            /\ errno' = e
            /\ fsentry' = [valid |-> TRUE, mask |-> m, id |-> id, freed |-> 0]
            /\ IF HasId(m)
               THEN /\ upc' = "rbh_backend_branch"
                    /\ UNCHANGED <<failed, outcome>>
               ELSE Fail("missing_id", ENODATA,
                         <<"rbh_backend_fsentry_from_path">>)
    /\ UNCHANGED <<raw_parsed, raw_uri, path, uri, heap, backend, branch,
                   dlerr>>
    /\ UNCHANGED notUri

\* backend_from_uri, lines 74-77 (a path) and 78-79 (an ID)
Branch ==
    /\ upc = "rbh_backend_branch"
    /\ \/ /\ BranchCase(path, uri) = "path"
          /\ \E ok \in BOOLEAN :
             \E e \in (IF ok THEN AfterCall(errno) ELSE StepErrnos) :
             \E c \in AfterCall(e) :
               /\ heap' = (IF ok
                           THEN Append(heap, [type |-> heap[backend].type,
                                              fsname |-> heap[backend].fsname,
                                              root |-> fsentry.id,
                                              destroyed |-> 0])
                           ELSE heap)
               /\ branch' = (IF ok THEN Len(heap) + 1 ELSE 0)
               /\ calls' = calls \o
                    << Call("rbh_backend_branch", <<backend, fsentry.id>>,
                            IF ok THEN Len(heap) + 1 ELSE 0),
                       Call("free", <<"fsentry">>, 0) >>
               /\ fsentry' = [fsentry EXCEPT !.freed = @ + 1]
               /\ failed' = (IF ok THEN failed
                             ELSE [step |-> "rbh_backend_branch", err |-> e])
               /\ errno' = RestoreErrno(e, c)
       \/ /\ BranchCase(path, uri) = "id"
          /\ \E ok \in BOOLEAN :
             \E e \in (IF ok THEN AfterCall(errno) ELSE StepErrnos) :
               /\ heap' = (IF ok
                           THEN Append(heap, [type |-> heap[backend].type,
                                              fsname |-> heap[backend].fsname,
                                              root |-> uri.id,
                                              destroyed |-> 0])
                           ELSE heap)
               /\ branch' = (IF ok THEN Len(heap) + 1 ELSE 0)
               /\ calls' = Append(calls,
                                  Call("rbh_backend_branch",
                                       <<backend, uri.id>>,
                                       IF ok THEN Len(heap) + 1 ELSE 0))
               /\ failed' = (IF ok THEN failed
                             ELSE [step |-> "rbh_backend_branch", err |-> e])
               /\ errno' = e
               /\ UNCHANGED fsentry
    /\ upc' = "rbh_backend_destroy"
    /\ UNCHANGED <<raw_parsed, raw_uri, path, uri, backend, dlerr, outcome>>
    /\ UNCHANGED notUri

\* backend_from_uri, lines 80-81
ReturnBackend ==
    /\ upc = "return_backend"
    /\ upc' = "returned"
    /\ outcome' = Returned(backend)
    /\ UNCHANGED <<raw_parsed, raw_uri, path, uri, heap, backend, branch,
                   fsentry, dlerr, calls, failed, errno>>
    /\ UNCHANGED notUri

\* backend_from_uri, lines 84-90
DestroyAndReturn ==
    /\ upc = "rbh_backend_destroy"
    /\ LET b == DestroyedBackend(backend, branch)
       IN  /\ calls' = Append(calls, Call("rbh_backend_destroy", <<b>>, 0))
           /\ heap' = (IF b \in DOMAIN heap
                       THEN [heap EXCEPT ![b].destroyed = @ + 1]
                       ELSE heap)
    /\ \E c \in AfterCall(errno) :
         /\ errno' = RestoreErrno(errno, c)
         /\ IF branch = 0
            THEN /\ upc' = "exited"
                 /\ outcome' = Exited(RestoreErrno(errno, c),
                                      <<"rbh_backend_branch">>)
            ELSE /\ upc' = "returned"
                 /\ outcome' = Returned(branch)
    /\ UNCHANGED <<raw_parsed, raw_uri, path, uri, backend, branch, fsentry,
                   dlerr, failed>>
    /\ UNCHANGED notUri

NoData ==
    [stripe_count |-> <<>>, stripe_size |-> <<>>, mirror_id |-> <<>>,
     pattern |-> <<>>, begin |-> <<>>, flags |-> <<>>, pool |-> <<>>,
     end |-> <<>>, ost |-> <<>>, comp_index |-> 0, ost_size |-> 0,
     ost_idx |-> 0, oob |-> FALSE]

NoLay == [subcount |-> 0, nb_xattrs |-> 5, nb_comp |-> 1, cur |-> 1]

NoLayout ==
    [composite |-> FALSE, comps |-> <<>>, last_id |-> 0, magic |-> "",
     gen |-> 0, flags |-> 0, mirror_count |-> 0]

IdleLustre ==
    /\ lpc = "idle"
    /\ mode = ""
    /\ is_symlink = FALSE
    /\ is_dir = FALSE
    /\ is_reg = FALSE
    /\ layout = NoLayout
    /\ values = <<>>
    /\ pairs = <<>>
    /\ writes = <<>>
    /\ count = 0
    /\ ret = 0
    /\ data = NoData
    /\ lay = NoLay
    /\ events = <<>>
    /\ inode_xattrs = <<>>

IdleId ==
    /\ id_mem = <<>>
    /\ id_buffer = 0
    /\ id_bufsize = 0
    /\ id_last = [called |-> FALSE, src |-> <<>>, rc |-> 0,
                  dest |-> [data |-> -1, size |-> 0],
                  buffer |-> 0, bufsize |-> 0, mem |-> <<>>, errno |-> 0]

InitUri ==
    /\ IdleId
    /\ IdleLustre
    /\ upc = "rbh_parse_raw_uri"
    /\ raw_parsed = [fragment |-> NULL]
    /\ raw_uri = [fragment |-> NULL]
    /\ path = NULL
    /\ uri = NoUri
    /\ heap = <<>>
    /\ backend = 0
    /\ branch = 0
    /\ fsentry = NoFsentry
    /\ dlerr = ""
    /\ calls = <<>>
    /\ failed = NoFailure
    /\ outcome = NoOutcome
    /\ errno \in {0, 5}

NextUri ==
    \/ ParseRawUri
    \/ ParseUri
    \/ PluginImport
    \/ PluginNew
    \/ PercentDecodePath
    \/ FsentryFromPath
    \/ Branch
    \/ ReturnBackend
    \/ DestroyAndReturn

SpecUri == InitUri /\ [][NextUri]_vars

\* ------------------------------------------------------------------------
\* Properties of the URI resolver (checked under SpecUri)
\* ------------------------------------------------------------------------

CallsOf(fn) == { i \in DOMAIN calls : calls[i].fn = fn }

UriDone == upc \in {"returned", "exited"}

\* C1: with a path and every step succeeding, the backend returned is the
\* one rbh_backend_branch made from the resolved entry's ID; the unbranched
\* backend is destroyed exactly once and only after branch was called on
\* it; the fsentry is freed exactly once and only after branch read its ID;
\* the returned branch is never destroyed.
C1_BranchOnResolvedEntry ==
    LET br == CallsOf("rbh_backend_branch")
        de == CallsOf("rbh_backend_destroy")
        fr == CallsOf("free")
    IN  /\ \A i \in de :
              /\ calls[i].arg = <<backend>>
              /\ \E j \in br : j < i /\ calls[j].arg[1] = backend
        /\ \A i \in fr :
              \E j \in br : j < i /\ calls[j].arg = <<backend, fsentry.id>>
        /\ (upc = "returned" /\ path # NULL) =>
              /\ Cardinality(br) = 1
              /\ Cardinality(de) = 1
              /\ Cardinality(fr) = 1
              /\ \E j \in br : /\ calls[j].arg = <<backend, fsentry.id>>
                               /\ calls[j].ret = outcome.backend
              /\ outcome.backend # backend
              /\ heap[outcome.backend].root = fsentry.id
              /\ heap[outcome.backend].destroyed = 0
              /\ heap[backend].destroyed = 1
              /\ fsentry.freed = 1

C1_Witness ==
    /\ upc = "returned"
    /\ path # NULL
    /\ fsentry.valid
    /\ outcome.backend = branch

\* Whether backend_from_uri was entered, and whether it called branch.
EnteredBackendFromUri == CallsOf("rbh_backend_plugin_import") # {}
BranchCalled == CallsOf("rbh_backend_branch") # {}
PathOrId == path # NULL \/ Len(uri.id) # 0

\* C2 as stated: in backend_from_uri, branch is called if and only if a
\* path is present or the URI's ID has a non-zero size.
C2_Original ==
    (UriDone /\ EnteredBackendFromUri) => (BranchCalled <=> PathOrId)

\* C2, amended: branch is called only if a path is present or the URI's ID
\* has a non-zero size, and it is called whenever that is so and no earlier
\* step (backend creation, percent-decode, path resolution, ID check) has
\* failed. With no path and a non-empty URI ID, branch gets exactly that ID
\* and no path is resolved; with no path and a size-0 ID the backend made
\* for (backend, fsname) is returned, never branched, never destroyed.
C2_BranchIffPathOrId ==
    LET br == CallsOf("rbh_backend_branch")
        earlier == upc = "exited" /\ failed.step # "rbh_backend_branch"
    IN  /\ BranchCalled => PathOrId
        /\ (UriDone /\ EnteredBackendFromUri /\ ~earlier /\ PathOrId)
              => BranchCalled
        /\ (path = NULL /\ Len(uri.id) # 0) =>
              /\ \A i \in br : calls[i].arg = <<backend, uri.id>>
              /\ CallsOf("rbh_backend_fsentry_from_path") = {}
              /\ CallsOf("rbh_percent_decode") = {}
        /\ (upc = "returned" /\ path = NULL /\ Len(uri.id) = 0) =>
              /\ outcome.backend = backend
              /\ heap[backend] = [type |-> uri.backend, fsname |-> uri.fsname,
                                  root |-> <<>>, destroyed |-> 0]
              /\ br = {}
              /\ CallsOf("rbh_backend_destroy") = {}

C2_Witness ==
    /\ upc = "returned"
    /\ path = NULL
    /\ Len(uri.id) # 0
    /\ BranchCalled
    /\ outcome.backend = branch

\* C3: the fragment is taken as an entry path exactly when it is present
\* and its first character is not '['; it is then removed from the raw URI
\* before rbh_parse_uri sees it. Otherwise the raw URI reaches
\* rbh_parse_uri unchanged and no path is used.
C3_FragmentAsPath ==
    LET f == raw_parsed.fragment
        parsed == \E i \in CallsOf("rbh_parse_raw_uri") : calls[i].ret = 0
    IN  parsed =>
          IF f # NULL /\ f[1] # 91
          THEN /\ path # NULL
               /\ raw_uri.fragment = NULL
               /\ CallsOf("rbh_percent_decode") = {} => path = f
               /\ \A i \in CallsOf("rbh_percent_decode") : calls[i].arg = <<f>>
               /\ \A i \in CallsOf("rbh_parse_uri") : calls[i].arg = <<NULL>>
          ELSE /\ path = NULL
               /\ raw_uri = raw_parsed
               /\ \A i \in CallsOf("rbh_parse_uri") : calls[i].arg = <<f>>
               /\ CallsOf("rbh_percent_decode") = {}
               /\ CallsOf("rbh_backend_fsentry_from_path") = {}

C3_Witness ==
    /\ raw_parsed.fragment # NULL
    /\ raw_parsed.fragment[1] # 91
    /\ path = raw_parsed.fragment
    /\ \E i \in CallsOf("rbh_parse_uri") : calls[i].arg = <<NULL>>

\* C4: an fsentry whose mask lacks RBH_FP_ID ends the resolution with
\* ENODATA and branch is never called; branch only ever gets the ID of an
\* fsentry whose mask has RBH_FP_ID, or the URI's own ID.
C4_MissingIdentity ==
    /\ (fsentry.valid /\ BitAnd(fsentry.mask, 1) = 0) =>
          /\ upc = "exited"
          /\ outcome.kind = "exit"
          /\ outcome.status = EXIT_FAILURE
          /\ outcome.errnum = ENODATA
          /\ CallsOf("rbh_backend_branch") = {}
    /\ \A i \in CallsOf("rbh_backend_branch") :
          \/ /\ fsentry.valid
             /\ BitAnd(fsentry.mask, 1) = 1
             /\ calls[i].arg[2] = fsentry.id
          \/ /\ ~fsentry.valid
             /\ path = NULL
             /\ calls[i].arg[2] = uri.id

C4_Witness ==
    /\ fsentry.valid
    /\ BitAnd(fsentry.mask, 1) = 0
    /\ fsentry.mask # 0
    /\ outcome.errnum = ENODATA

ResolutionSteps ==
    << "rbh_parse_raw_uri", "rbh_parse_uri", "rbh_backend_plugin_import",
       "rbh_backend_plugin_new", "rbh_percent_decode",
       "rbh_backend_fsentry_from_path", "rbh_backend_branch" >>

StepIndex(fn) ==
    IF \E k \in DOMAIN ResolutionSteps : ResolutionSteps[k] = fn
    THEN CHOOSE k \in DOMAIN ResolutionSteps : ResolutionSteps[k] = fn
    ELSE 0

\* C5: a failing step ends the resolution: no later step runs, no step runs
\* twice, and the error reported is the one the failing step set, also
\* when free() and rbh_backend_destroy() run between a failed branch and
\* the report; a plugin import failing with errno 0 reports dlerror()'s
\* text.
C5_FailureIsFatal ==
    /\ \A k \in DOMAIN ResolutionSteps :
          Cardinality(CallsOf(ResolutionSteps[k])) <= 1
    /\ \A i, j \in DOMAIN calls :
          (i < j /\ StepIndex(calls[i].fn) > 0 /\ StepIndex(calls[j].fn) > 0)
             => StepIndex(calls[i].fn) < StepIndex(calls[j].fn)
    /\ upc = "exited" => failed.step # ""
    /\ failed.step # "" =>
          /\ upc \in {"exited", "rbh_backend_destroy"}
          /\ LET fn == IF failed.step = "missing_id"
                       THEN "rbh_backend_fsentry_from_path"
                       ELSE failed.step
             IN  \E k \in CallsOf(fn) :
                    \A j \in DOMAIN calls :
                       j > k => calls[j].fn \in {"free", "rbh_backend_destroy"}
          /\ failed.step # "missing_id" => errno = failed.err
          /\ upc = "exited" =>
                /\ outcome.kind = "exit"
                /\ outcome.status = EXIT_FAILURE
                /\ outcome.errnum = failed.err
          /\ (failed.step = "rbh_backend_plugin_import" /\ failed.err = 0) =>
                /\ dlerr # ""
                /\ outcome.text = <<"rbh_backend_plugin_import: %s", dlerr>>

C5_Witness ==
    /\ upc = "exited"
    /\ failed.step = "rbh_backend_branch"
    /\ fsentry.freed = 1
    /\ heap[backend].destroyed = 1
    /\ outcome.errnum = failed.err

\* ------------------------------------------------------------------------
\* rbh_id_copy (robinhood/id.h): the bounded copy of an ID into a buffer
\* ------------------------------------------------------------------------

\* The largest buffer a caller provides, and the longest ID copied.
MaxBufSize == 4
MaxIdSize == 2

ENOBUFS == 105

IdBytes == {1, 2}

\* struct rbh_id, as its bytes: size is the length
SrcIds == UNION { [1..k -> IdBytes] : k \in 0..MaxIdSize }

IdleUri ==
    /\ upc = "idle"
    /\ raw_parsed = [fragment |-> NULL]
    /\ raw_uri = [fragment |-> NULL]
    /\ path = NULL
    /\ uri = NoUri
    /\ heap = <<>>
    /\ backend = 0
    /\ branch = 0
    /\ fsentry = NoFsentry
    /\ dlerr = ""
    /\ calls = <<>>
    /\ failed = NoFailure
    /\ outcome = NoOutcome

\* id.h:85, the buffer is large enough
IdFitsMutant(bufsize, size) == bufsize + 1 >= size
IdFits(bufsize, size) == bufsize >= size

\* The buffer after size bytes of data are written at offset at.
WriteAt(mem, at, bytes) ==
    [ i \in 1..(IF at + Len(bytes) > Len(mem) THEN at + Len(bytes)
                ELSE Len(mem)) |->
        IF i > at /\ i <= at + Len(bytes) THEN bytes[i - at]
        ELSE IF i <= Len(mem) THEN mem[i]
        ELSE -1 ]

\* rbh_id_copy(dest, src, buffer, bufsize)
IdCopy ==
    /\ upc = "idle"
    /\ \E src \in SrcIds :
         IF IdFits(id_bufsize, Len(src))
         THEN /\ id_mem' = WriteAt(id_mem, id_buffer, src)
              /\ id_buffer' = id_buffer + Len(src)
              /\ id_bufsize' = id_bufsize - Len(src)
              /\ id_last' = [called |-> TRUE, src |-> src, rc |-> 0,
                             dest |-> [data |-> id_buffer, size |-> Len(src)],
                             buffer |-> id_buffer, bufsize |-> id_bufsize,
                             mem |-> id_mem, errno |-> errno]
              /\ errno' = errno
         ELSE /\ id_last' = [called |-> TRUE, src |-> src, rc |-> -1,
                             dest |-> [data |-> -1, size |-> 0],
                             buffer |-> id_buffer, bufsize |-> id_bufsize,
                             mem |-> id_mem, errno |-> errno]
              /\ errno' = ENOBUFS
              /\ UNCHANGED <<id_mem, id_buffer, id_bufsize>>
    /\ UNCHANGED notId

\* The caller hands rbh_id_copy a fresh buffer of some capacity.
InitId ==
    /\ IdleUri
    /\ IdleLustre
    /\ \E cap \in 0..MaxBufSize :
         /\ id_mem = [i \in 1..cap |-> -1]
         /\ id_bufsize = cap
    /\ id_buffer = 0
    /\ id_last = [called |-> FALSE, src |-> <<>>, rc |-> 0,
                  dest |-> [data |-> -1, size |-> 0],
                  buffer |-> 0, bufsize |-> 0, mem |-> <<>>, errno |-> 0]
    /\ errno \in {0, 5}

NextId == IdCopy

SpecId == InitId /\ [][NextId]_vars

\* C6: a copy into too small a buffer fails with ENOBUFS and changes
\* neither *buffer, *bufsize nor any byte; a copy that fits succeeds,
\* writes src's bytes at the old *buffer, advances *buffer and decrements
\* *bufsize by src->size; the bytes written never exceed the capacity the
\* buffer started with.
C6_IdCopyBounded ==
    /\ id_buffer + id_bufsize = Len(id_mem)
    /\ id_buffer <= Len(id_mem)
    /\ \A i \in DOMAIN id_mem : i > id_buffer => id_mem[i] = -1
    /\ id_last.called =>
         LET size == Len(id_last.src)
         IN  IF id_last.bufsize < size
             THEN /\ id_last.rc = -1
                  /\ errno = ENOBUFS
                  /\ id_buffer = id_last.buffer
                  /\ id_bufsize = id_last.bufsize
                  /\ id_mem = id_last.mem
             ELSE /\ id_last.rc = 0
                  /\ id_buffer = id_last.buffer + size
                  /\ id_bufsize = id_last.bufsize - size
                  /\ id_last.dest = [data |-> id_last.buffer, size |-> size]
                  /\ Len(id_mem) = Len(id_last.mem)
                  /\ \A i \in DOMAIN id_mem :
                        id_mem[i] = IF i > id_last.buffer
                                       /\ i <= id_last.buffer + size
                                    THEN id_last.src[i - id_last.buffer]
                                    ELSE id_last.mem[i]

C6_Witness ==
    /\ id_last.called
    /\ id_last.rc = -1
    /\ id_last.bufsize > 0
    /\ id_buffer > 0
    /\ id_bufsize < Len(id_last.src)



\* ------------------------------------------------------------------------
\* lustre_ns_xattrs_callback: values, the arena, the output pairs
\* ------------------------------------------------------------------------

\* The most components a composite layout has.
MaxComp == 2

ENOMEM == 12
EINVAL == 22
LCME_FL_INIT == 16
UINT64_MAX_STR_LEN == 22

\* What a failing llapi call leaves in errno (EOPNOTSUPP).
LlapiErrnos == {95}

\* A uint64_t is its two 32-bit halves <<high, low>>, each read as an int:
\* (int)v is the low half, and (uint64_t)-1 is <<-1, -1>>.
U64(n) == <<0, n>>
U64Minus1 == <<-1, -1>>
U64ToInt(v) == v[2]

\* i < v, for a small non-negative int i and a uint64_t v
U64Above(v, i) == v[1] # 0 \/ v[2] < 0 \/ i < v[2]

\* struct rbh_value; a pointer into the arena is the index of a push, 0 is
\* NULL
\* part_001:195-204
create_uint64_value(integer) == [type |-> "UINT64", data |-> integer]
\* part_001:206-215
create_uint32_value(integer) == [type |-> "UINT32", data |-> <<integer>>]
Int32Value(integer) == [type |-> "INT32", data |-> <<integer>>]
StringValue(ptr) == [type |-> "STRING", data |-> <<ptr>>]
BinaryValue(ptr, size) == [type |-> "BINARY", data |-> <<ptr, size>>]
SequenceValue(ptr, n) == [type |-> "SEQUENCE", data |-> <<ptr, n>>]
\* an element calloc() zeroed, and one malloc() or realloc() left as it was
ZeroValue == [type |-> "ZERO", data |-> <<>>]
UninitValue == [type |-> "UNINIT", data |-> <<>>]

\* What the arena holds for one push: raw bytes, or an array of values.
Bytes(b) == [type |-> "bytes", data |-> b]
ValueArray(vs) == [type |-> "values", data |-> vs]

\* Which rbh_sstack_push of a call fails: none (at = 0), the at-th only,
\* or the at-th and every later one.
PushChoices(n) == { [at |-> k, sticky |-> b] : k \in 0..n, b \in BOOLEAN }
PushFails(n, pf) == pf.at # 0 /\ (n = pf.at \/ (pf.sticky /\ n > pf.at))

\* The state a callee works on: the arena, the pairs, errno, the number of
\* pushes made, the last push's result, the callee's rc.
Ctx ==
    [values |-> values, pairs |-> pairs, writes |-> writes, errno |-> errno,
     npush |-> 0, ptr |-> 0, rc |-> 0]

\* rbh_sstack_push(_values, data, size)
Push(c, pf, blob) ==
    IF PushFails(c.npush + 1, pf)
    THEN [c EXCEPT !.npush = @ + 1, !.ptr = 0, !.errno = ENOMEM]
    ELSE [c EXCEPT !.npush = @ + 1, !.ptr = Len(c.values) + 1,
                   !.values = Append(@, blob)]

SetPair(prs, slot, pair) ==
    [ j \in (DOMAIN prs) \cup {slot} |-> IF j = slot THEN pair ELSE prs[j] ]

\* fill_pair
FillPair(c, pf, key, value, slot) ==
    LET p == Push(c, pf, value)
    IN  [p EXCEPT !.pairs = SetPair(@, slot, [key |-> key, value |-> p.ptr]),
                  !.writes = Append(@, slot),
                  !.rc = IF p.ptr = 0 THEN -1 ELSE 0]

\* fill_binary_pair
FillBinaryPair(c, pf, key, bytes, len, slot) ==
    LET p == Push(c, pf, Bytes(bytes))
    IN  IF p.ptr = 0 THEN [p EXCEPT !.rc = -1]
        ELSE FillPair(p, pf, key, BinaryValue(p.ptr, len), slot)

\* fill_string_pair
FillStringPair(c, pf, key, str, slot) ==
    LET p == Push(c, pf, Bytes(<<str>>))
    IN  IF p.ptr = 0 THEN [p EXCEPT !.rc = -1]
        ELSE FillPair(p, pf, key, StringValue(p.ptr), slot)

\* fill_int32_pair
FillInt32Pair(c, pf, key, integer, slot) ==
    FillPair(c, pf, key, Int32Value(integer), slot)

\* fill_uint32_pair
FillUint32Pair(c, pf, key, integer, slot) ==
    FillPair(c, pf, key, create_uint32_value(integer), slot)

\* fill_uint64_pair
FillUint64Pair(c, pf, key, integer, slot) ==
    FillPair(c, pf, key, create_uint64_value(integer), slot)

\* The first n elements of an array (what n * sizeof(*values) bytes hold).
FirstN(arr, n) ==
    [ i \in 1..n |-> IF i <= Len(arr) THEN arr[i] ELSE UninitValue ]

\* fill_sequence_pair
FillSequencePair(c, pf, key, arr, length, slot) ==
    LET p == Push(c, pf, ValueArray(FirstN(arr, length)))
    IN  IF p.ptr = 0 THEN [p EXCEPT !.rc = -1]
        ELSE FillPair(p, pf, key, SequenceValue(p.ptr, length), slot)

Commit(c) ==
    /\ values' = c.values
    /\ pairs' = c.pairs
    /\ writes' = c.writes
    /\ errno' = c.errno

\* lustre_ns_xattrs_callback, line 758
CallbackCountMutant(n, subcount) == n + 1
CallbackCount(n, subcount) == n + subcount

\* lustre_ns_xattrs_callback, lines 753-759: one turn of the loop, with
\* what the extractor returned
CallbackStep(subcount, next) ==
    IF subcount = -1
    THEN /\ lpc' = "done"
         /\ ret' = -1
         /\ count' = count
    ELSE /\ lpc' = next
         /\ ret' = ret
         /\ count' = CallbackCount(count, subcount)

\* ------------------------------------------------------------------------
\* What the callback is called on
\* ------------------------------------------------------------------------

Modes == {"reg", "dir", "lnk", "other"}

\* One component of a layout: what the llapi_layout_*_get calls answer
\* when it is the current one; objs are the OST indices
\* llapi_layout_ost_index_get knows.
CompInit ==
    [stripe_count |-> U64(2), stripe_size |-> U64(4), pattern |-> U64(0),
     flags |-> LCME_FL_INIT, pool |-> "fast", objs |-> <<4, 1>>,
     begin |-> U64(0), end |-> U64(8), mirror_id |-> 1]

\* a component that is not instantiated yet
CompUninit ==
    [stripe_count |-> U64(1), stripe_size |-> U64(2), pattern |-> U64(0),
     flags |-> 0, pool |-> "", objs |-> <<>>,
     begin |-> U64(8), end |-> U64Minus1, mirror_id |-> 1]

\* an instantiated component of a stale mirror (LCME_FL_INIT |
\* LCME_FL_STALE), one of its two stripes known
CompStale ==
    [stripe_count |-> U64(2), stripe_size |-> U64(1), pattern |-> U64(0),
     flags |-> LCME_FL_INIT + 1, pool |-> "slow", objs |-> <<6>>,
     begin |-> U64(0), end |-> U64(8), mirror_id |-> 2]

\* a directory's default striping: stripe_count is LLAPI_LAYOUT_DEFAULT
\* (0x1000000000000002), there is no object
CompDefault ==
    [stripe_count |-> <<268435456, 2>>, stripe_size |-> U64(1),
     pattern |-> U64(0), flags |-> 0, pool |-> "", objs |-> <<>>,
     begin |-> U64(0), end |-> U64Minus1, mirror_id |-> 0]

Components == {CompInit, CompUninit, CompStale}

\* A composite layout has 1..MaxComp components, each with an ID of its
\* own; only the ID of the last one is looked at, and it may be their number or
\* below it (IDs are handed out again once they wrapped). A plain layout has
\* one component.
LastIds(n) == { id \in (n - 1)..n : id >= 1 }

CompositeLayout(cs, id) ==
    [composite |-> TRUE, comps |-> cs, last_id |-> id,
     magic |-> "LOV_USER_MAGIC_COMP_V1", gen |-> 7, flags |-> 0,
     mirror_count |-> 2]

Layouts ==
    UNION { { CompositeLayout(cs, id) : id \in LastIds(Len(cs)) } :
              cs \in UNION { [1..k -> Components] : k \in 1..MaxComp } }
    \cup
    { [composite |-> FALSE, comps |-> <<c>>, last_id |-> 0,
       magic |-> "LOV_USER_MAGIC_V1", gen |-> 7, flags |-> 0,
       mirror_count |-> 0] :
        c \in Components \cup {CompDefault} }

\* what stands for the layout of a symbolic link, which is never read
LinkLayout ==
    [composite |-> FALSE, comps |-> <<CompInit>>, last_id |-> 0,
     magic |-> "LOV_USER_MAGIC_V1", gen |-> 7, flags |-> 0,
     mirror_count |-> 0]

XATTR_CCC_EXPIRES_AT == "user.ccc_expires_at"

\* The inode xattrs the POSIX backend collected before the callback, an
\* inode having one value per key: keys and raw values ("1", "x", "17").
InodeXattrLists ==
    { <<>>,
      << [key |-> "user.other", bytes |-> <<49>>],
         [key |-> XATTR_CCC_EXPIRES_AT, bytes |-> <<120>>] >>,
      << [key |-> "user.other", bytes |-> <<49>>],
         [key |-> XATTR_CCC_EXPIRES_AT, bytes |-> <<49, 55>>] >> }

\* The arena once the POSIX backend pushed the inode xattrs: for the i-th,
\* its bytes at 2i - 1 and its binary value at 2i.
InodeArena(xs) ==
    [ n \in 1..(2 * Len(xs)) |->
        IF n % 2 = 1 THEN Bytes(xs[(n + 1) \div 2].bytes)
        ELSE BinaryValue(n - 1, Len(xs[n \div 2].bytes)) ]

InodePairs(xs) ==
    [ i \in 1..Len(xs) |-> [key |-> xs[i].key, value |-> 2 * i] ]

InitLustre ==
    /\ IdleUri
    /\ IdleId
    /\ lpc = "entry"
    /\ mode \in Modes
    /\ is_symlink = FALSE
    /\ is_dir = FALSE
    /\ is_reg = FALSE
    /\ layout \in Layouts
    /\ mode = "lnk" => layout = LinkLayout
    /\ \E xs \in InodeXattrLists :
         /\ values = InodeArena(xs)
         /\ inode_xattrs = InodePairs(xs)
    /\ pairs = <<>>
    /\ writes = <<>>
    /\ count = 0
    /\ ret = 0
    /\ data = NoData
    /\ lay = NoLay
    /\ events = <<>>
    /\ errno \in {0, 5}

\* lustre_ns_xattrs_callback, lines 745-751
CallbackEnter ==
    /\ lpc = "entry"
    /\ is_symlink' = (mode = "lnk")
    /\ is_dir' = (mode = "dir")
    /\ is_reg' = (mode = "reg")
    /\ count' = 0
    /\ lpc' = "xattrs_get_fid"
    /\ UNCHANGED <<mode, layout, values, pairs, writes, ret, data, lay,
                   events, inode_xattrs, errno>>
    /\ UNCHANGED notLustre

\* xattrs_get_fid
XattrsGetFid ==
    /\ lpc = "xattrs_get_fid"
    /\ \/ \E e \in LlapiErrnos :
            \* llapi_fd2fid returns -e
            /\ errno' = e
            /\ CallbackStep(-1, "xattrs_get_hsm")
            /\ UNCHANGED <<values, pairs, writes>>
       \/ \E pf \in PushChoices(2) :
            LET c == FillBinaryPair(Ctx, pf, "fid", <<"lu_fid">>, 16, count)
            IN  /\ Commit(c)
                /\ CallbackStep(IF c.rc # 0 THEN c.rc ELSE 1, "xattrs_get_hsm")
    /\ UNCHANGED <<mode, is_symlink, is_dir, is_reg, layout, data, lay,
                   events, inode_xattrs>>
    /\ UNCHANGED notLustre

\* struct hsm_user_state, as llapi_hsm_state_get_fd fills it
HsmStates == { [hus_states |-> 9, hus_archive_id |-> 3] }

\* xattrs_get_hsm
XattrsGetHsm ==
    /\ lpc = "xattrs_get_hsm"
    /\ \/ /\ ~is_reg
          /\ CallbackStep(0, "xattrs_get_layout")
          /\ UNCHANGED <<values, pairs, writes, errno>>
       \/ /\ is_reg
          /\ \E e \in LlapiErrnos :
               /\ errno' = e
               /\ CallbackStep(-1, "xattrs_get_layout")
               /\ UNCHANGED <<values, pairs, writes>>
       \/ /\ is_reg
          /\ \E hus \in HsmStates, pf \in PushChoices(2) :
               LET c1 == FillUint32Pair(Ctx, pf, "hsm_state", hus.hus_states,
                                        count + 0)
                   c2 == FillUint32Pair(c1, pf, "hsm_archive_id",
                                        hus.hus_archive_id, count + 1)
               IN  IF c1.rc # 0
                   THEN Commit(c1) /\ CallbackStep(-1, "xattrs_get_layout")
                   ELSE /\ Commit(c2)
                        /\ CallbackStep(IF c2.rc # 0 THEN -1 ELSE 2,
                                        "xattrs_get_layout")
    /\ UNCHANGED <<mode, is_symlink, is_dir, is_reg, layout, data, lay,
                   events, inode_xattrs>>
    /\ UNCHANGED notLustre


\* ------------------------------------------------------------------------
\* xattrs_get_layout
\* ------------------------------------------------------------------------

KnownMagics ==
    { "LOV_USER_MAGIC_V1", "LOV_USER_MAGIC_COMP_V1", "LOV_USER_MAGIC_SEL",
      "LOV_USER_MAGIC_V3", "LOV_USER_MAGIC_SPECIFIC",
      "LOV_USER_MAGIC_FOREIGN" }

\* xattrs_get_magic_and_gen, into pairs[slot] and pairs[slot + 1]; f is
\* the call that fails, if any
XattrsGetMagicAndGen(c, pf, f, slot) ==
    IF f = "fgetxattr"
    THEN [c EXCEPT !.rc = -1, !.errno = CHOOSE e \in LlapiErrnos : TRUE]
    ELSE IF f = "magic" \/ layout.magic \notin KnownMagics
    THEN [c EXCEPT !.rc = -1, !.errno = EINVAL]
    ELSE LET gen == IF layout.magic = "LOV_USER_MAGIC_FOREIGN" THEN -1
                    ELSE layout.gen
             c1 == FillStringPair(c, pf, "magic", layout.magic, slot)
             c2 == FillUint32Pair(c1, pf, "gen", gen, slot + 1)
         IN  IF c1.rc # 0 THEN c1
             ELSE IF c2.rc # 0 THEN c2
             ELSE [c2 EXCEPT !.rc = 2]

\* xattrs_get_layout, lines 637-644: the errno it returns with
CleanupErrno(save_errno, e) == IF save_errno # 0 THEN save_errno ELSE e

\* What a failing llapi call does to the frame of xattrs_get_layout
LlapiFail(fr) ==
    [fr EXCEPT !.rc = -1, !.c.errno = CHOOSE e \in LlapiErrnos : TRUE]

\* The frame of xattrs_get_layout at line 584: its locals, and what it
\* works on
LayoutFrame ==
    [c |-> Ctx, subcount |-> lay.subcount, rc |-> 0, nb_comp |-> lay.nb_comp,
     nb_xattrs |-> lay.nb_xattrs, data |-> data, events |-> events]

\* a fill_*_pair into pairs[subcount++]
PairFilled(fr, c) == [fr EXCEPT !.c = c, !.rc = c.rc, !.subcount = @ + 1]

\* xattrs_get_layout, lines 584-590; f is the call that fails, if any
HeaderFlags(fr, f, pf) ==
    IF fr.rc # 0 THEN fr
    ELSE IF f = "flags_get" THEN LlapiFail(fr)
    ELSE PairFilled(fr, FillUint32Pair(fr.c, pf, "flags", layout.flags,
                                       count + fr.subcount))

MagicAndGenDone(fr, c) ==
    IF c.rc < 0 THEN [fr EXCEPT !.c = c, !.rc = c.rc]
    ELSE [fr EXCEPT !.c = [c EXCEPT !.rc = 0], !.subcount = @ + c.rc]

\* xattrs_get_layout, lines 592-598
HeaderMagicAndGen(fr, f, pf) ==
    IF fr.rc # 0 \/ ~is_reg THEN fr
    ELSE MagicAndGenDone(fr, XattrsGetMagicAndGen(fr.c, pf, f,
                                                  count + fr.subcount))

\* xattrs_get_layout, lines 600-607
HeaderMirrorCount(fr, f, pf) ==
    IF fr.rc # 0 \/ ~layout.composite THEN fr
    ELSE IF f = "mirror_count_get" THEN LlapiFail(fr)
    ELSE PairFilled(fr, FillUint32Pair(fr.c, pf, "mirror_count",
                                       layout.mirror_count,
                                       count + fr.subcount))

\* layout_get_nb_comp: the ID of the last component; and
\* xattrs_get_layout, lines 609-615
HeaderNbComp(fr, f) ==
    IF fr.rc # 0 \/ ~layout.composite THEN fr
    ELSE IF f \in {"comp_use_last", "comp_id_get", "comp_use_first"}
    THEN LlapiFail(fr)
    ELSE [fr EXCEPT !.nb_comp = layout.last_id, !.nb_xattrs = @ + 3]

\* init_iterator_data, lines 407-420: the arrays calloc() gave
IteratorArrays(d, length, nb_xattrs) ==
    [d EXCEPT
       !.stripe_count = [i \in 1..length |-> ZeroValue],
       !.stripe_size = [i \in 1..length |-> ZeroValue],
       !.pattern = [i \in 1..length |-> ZeroValue],
       !.flags = [i \in 1..length |-> ZeroValue],
       !.pool = [i \in 1..length |-> ZeroValue],
       !.mirror_id = IF nb_xattrs >= 6 THEN [i \in 1..length |-> ZeroValue]
                     ELSE @,
       !.begin = IF nb_xattrs >= 6 THEN [i \in 1..length |-> ZeroValue]
                 ELSE @,
       !.end = IF nb_xattrs >= 6 THEN [i \in 1..length |-> ZeroValue]
               ELSE @]

\* init_iterator_data(&data, nb_comp, nb_xattrs); f is the allocation
\* that fails, if any
InitIteratorData(fr, f) ==
    IF fr.rc # 0 THEN fr
    ELSE IF f = "calloc"
    THEN [fr EXCEPT !.rc = -1, !.c.errno = ENOMEM,
                    !.events = Append(@, "calloc failed")]
    ELSE IF f = "malloc"
    THEN [fr EXCEPT !.rc = -1, !.c.errno = -ENOMEM,
                    !.data = IteratorArrays(@, fr.nb_comp, fr.nb_xattrs),
                    !.events = @ \o <<"calloc arr", "malloc failed",
                                      "free arr">>]
    ELSE [fr EXCEPT
            !.data = [IteratorArrays(@, fr.nb_comp, fr.nb_xattrs) EXCEPT
                        !.ost = [i \in 1..fr.nb_comp |-> UninitValue],
                        !.ost_size = fr.nb_comp, !.ost_idx = 0,
                        !.comp_index = 0],
            !.events = @ \o <<"calloc arr", "malloc ost">>]

BeginFailures ==
    { "none", "get_by_fd", "flags_get", "fgetxattr", "magic",
      "mirror_count_get", "comp_use_last", "comp_id_get", "comp_use_first",
      "calloc", "malloc" }

\* xattrs_get_layout, lines 584-619, once the layout is read
LayoutHeader(f, pf) ==
    InitIteratorData(
        HeaderNbComp(
            HeaderMirrorCount(
                HeaderMagicAndGen(
                    HeaderFlags([LayoutFrame EXCEPT
                                   !.events = Append(@, "get layout")],
                                f, pf),
                    f, pf),
                f, pf),
            f),
        f)

\* xattrs_get_layout after line 619: on to the components, or out
\* through err
HeaderDone(fr) ==
    IF fr.rc # 0
    THEN /\ values' = fr.c.values
         /\ pairs' = fr.c.pairs
         /\ writes' = fr.c.writes
         /\ errno' = CleanupErrno(0, fr.c.errno)
         /\ events' = Append(fr.events, "free layout")
         /\ data' = NoData
         /\ lay' = NoLay
         /\ CallbackStep(fr.rc, "xattrs_get_mdt_info")
    ELSE /\ Commit(fr.c)
         /\ events' = fr.events
         /\ data' = fr.data
         /\ lay' = [subcount |-> fr.subcount, nb_xattrs |-> fr.nb_xattrs,
                    nb_comp |-> fr.nb_comp, cur |-> 1]
         /\ lpc' = "layout_component"
         /\ UNCHANGED <<count, ret>>

\* xattrs_get_layout, lines 577-619
LayoutBegin ==
    /\ lpc = "xattrs_get_layout"
    /\ \/ /\ is_symlink
          /\ CallbackStep(0, "xattrs_get_mdt_info")
          /\ UNCHANGED <<values, pairs, writes, errno, data, lay, events>>
       \/ /\ ~is_symlink
          /\ \E e \in LlapiErrnos :
               \* llapi_layout_get_by_fd returns NULL
               /\ errno' = e
               /\ CallbackStep(-1, "xattrs_get_mdt_info")
               /\ UNCHANGED <<values, pairs, writes, data, lay, events>>
       \/ /\ ~is_symlink
          /\ \E f \in BeginFailures \ {"get_by_fd"}, pf \in PushChoices(5) :
               HeaderDone(LayoutHeader(f, pf))
    /\ UNCHANGED <<mode, is_symlink, is_dir, is_reg, layout, inode_xattrs>>
    /\ UNCHANGED notLustre

\* data->X[index] = v, for an array of its allocated length
ArrSet(arr, index, v) ==
    IF index >= 0 /\ index < Len(arr) THEN [arr EXCEPT ![index + 1] = v]
    ELSE arr

\* fill_iterator_data, line 310
IsInitOrNotComp(flags, composite) == flags = LCME_FL_INIT \/ ~composite

\* iter_data_ost_try_resize, line 243
NeedsResize(d, ost_len) == d.ost_idx + ost_len > d.ost_size

\* iter_data_ost_try_resize, lines 244-252: realloc keeps what was stored
OstResized(d, ost_len) ==
    [d EXCEPT !.ost = [i \in 1..(d.ost_size + ost_len) |->
                         IF i <= Len(d.ost) THEN d.ost[i] ELSE UninitValue],
              !.ost_size = @ + ost_len]

\* data->ost[data->ost_idx++] = v
OstStore(d, v) ==
    [d EXCEPT !.ost = ArrSet(@, d.ost_idx, v),
              !.oob = @ \/ d.ost_idx >= d.ost_size,
              !.ost_idx = @ + 1]

RECURSIVE OstStoreAll(_, _, _)
OstStoreAll(d, objs, n) ==
    IF n = 0 THEN d
    ELSE OstStore(OstStoreAll(d, objs, n - 1), create_uint64_value(U64(objs[n])))

\* How many OST indices the loop of lines 321-329 gets: it stops at
\* stripe_count, or when llapi_layout_ost_index_get says EINVAL.
OstRetrieved(comp) ==
    IF U64Above(comp.stripe_count, Len(comp.objs)) THEN Len(comp.objs)
    ELSE U64ToInt(comp.stripe_count)

\* fill_iterator_data, lines 310-312
OstLen(comp) ==
    IF IsInitOrNotComp(comp.flags, layout.composite)
    THEN U64ToInt(comp.stripe_count)
    ELSE 1

CompFailures ==
    { "none", "stripe_count_get", "stripe_size_get", "pattern_get",
      "comp_flags_get", "pool_name_get", "realloc", "ost_index_get",
      "comp_extent_get", "mirror_id_get", "comp_use_next" }

\* fill_iterator_data, lines 280-284; f is the call that fails, if any
ItStripeCount(fr, comp, index, f) ==
    IF fr.rc # 0 THEN fr
    ELSE IF f = "stripe_count_get" THEN LlapiFail(fr)
    ELSE [fr EXCEPT
            !.data.stripe_count =
                ArrSet(@, index, create_uint64_value(comp.stripe_count)),
            !.data.oob = @ \/ index < 0 \/ index >= Len(fr.data.stripe_count)]

\* fill_iterator_data, lines 286-290
ItStripeSize(fr, comp, index, f) ==
    IF fr.rc # 0 THEN fr
    ELSE IF f = "stripe_size_get" THEN LlapiFail(fr)
    ELSE [fr EXCEPT
            !.data.stripe_size =
                ArrSet(@, index, create_uint64_value(comp.stripe_size))]

\* fill_iterator_data, lines 292-296
ItPattern(fr, comp, index, f) ==
    IF fr.rc # 0 THEN fr
    ELSE IF f = "pattern_get" THEN LlapiFail(fr)
    ELSE [fr EXCEPT
            !.data.pattern =
                ArrSet(@, index, create_uint64_value(comp.pattern))]

\* fill_iterator_data, lines 298-302
ItFlags(fr, comp, index, f) ==
    IF fr.rc # 0 THEN fr
    ELSE IF f = "comp_flags_get" THEN LlapiFail(fr)
    ELSE [fr EXCEPT
            !.data.flags = ArrSet(@, index, create_uint32_value(comp.flags))]

\* create_string_value: the result of the push is stored as it comes
PoolStored(fr, index, c) ==
    [fr EXCEPT !.c = c, !.data.pool = ArrSet(@, index, StringValue(c.ptr))]

\* fill_iterator_data, lines 304-308
ItPool(fr, comp, index, f, pf) ==
    IF fr.rc # 0 THEN fr
    ELSE IF f = "pool_name_get" THEN LlapiFail(fr)
    ELSE PoolStored(fr, index, Push(fr.c, pf, Bytes(<<comp.pool>>)))

\* fill_iterator_data, lines 310-316, and iter_data_ost_try_resize
ItOstResize(fr, comp, f) ==
    IF fr.rc # 0 \/ ~NeedsResize(fr.data, OstLen(comp)) THEN fr
    ELSE IF f = "realloc"
    THEN [fr EXCEPT !.rc = -1, !.c.errno = -ENOMEM,
                    !.events = Append(@, "realloc failed")]
    ELSE [fr EXCEPT !.data = OstResized(@, OstLen(comp)),
                    !.events = Append(@, "realloc ost")]

\* the loop of lines 321-329 when the k-th llapi_layout_ost_index_get
\* fails for another reason than EINVAL
OstLoopFailed(fr, comp, k) ==
    LlapiFail([fr EXCEPT !.data = OstStoreAll(@, comp.objs, k)])

\* the loop of lines 321-329, left at stripe_count or on EINVAL
OstLoopDone(fr, comp) ==
    [fr EXCEPT
       !.data = OstStoreAll(@, comp.objs, OstRetrieved(comp)),
       !.c.errno = IF U64Above(comp.stripe_count, OstRetrieved(comp))
                   THEN EINVAL ELSE @]

\* fill_iterator_data, lines 318-332
ItOst(fr, comp, f, k) ==
    IF fr.rc # 0 THEN fr
    ELSE IF ~IsInitOrNotComp(comp.flags, layout.composite)
    THEN [fr EXCEPT !.data = OstStore(@, create_uint64_value(U64Minus1))]
    ELSE IF f = "ost_index_get" /\ k <= OstRetrieved(comp)
                                /\ U64Above(comp.stripe_count, k)
    THEN OstLoopFailed(fr, comp, k)
    ELSE OstLoopDone(fr, comp)

\* fill_iterator_data(layout, data, index) on component comp; f is the call
\* that fails, if any (for "ost_index_get", the one for stripe k)
FillIteratorData(fr, comp, index, f, k, pf) ==
    ItOst(
        ItOstResize(
            ItPool(
                ItFlags(
                    ItPattern(
                        ItStripeSize(
                            ItStripeCount(fr, comp, index, f),
                            comp, index, f),
                        comp, index, f),
                    comp, index, f),
                comp, index, f, pf),
            comp, f),
        comp, f, k)

\* xattrs_layout_iterator, lines 357-362
ItExtent(fr, comp, f) ==
    IF fr.rc # 0 THEN fr
    ELSE IF f = "comp_extent_get" THEN LlapiFail(fr)
    ELSE [fr EXCEPT
            !.data.begin = ArrSet(@, fr.data.comp_index,
                                  create_uint64_value(comp.begin)),
            !.data.end = ArrSet(@, fr.data.comp_index,
                                create_uint64_value(comp.end))]

\* xattrs_layout_iterator, lines 364-371
ItMirrorId(fr, comp, f) ==
    IF fr.rc # 0 THEN fr
    ELSE IF f = "mirror_id_get" THEN LlapiFail(fr)
    ELSE [fr EXCEPT
            !.data.mirror_id = ArrSet(@, fr.data.comp_index,
                                      create_uint32_value(comp.mirror_id)),
            !.data.comp_index = @ + 1]

\* xattrs_layout_iterator(layout, cbdata) on component comp
XattrsLayoutIterator(fr, comp, f, k, pf) ==
    ItMirrorId(
        ItExtent(FillIteratorData(fr, comp, fr.data.comp_index, f, k, pf),
                 comp, f),
        comp, f)

\* llapi_layout_comp_iterate moving on to the next component
ItNext(fr, f, more) ==
    IF fr.rc = 0 /\ more /\ f = "comp_use_next" THEN LlapiFail(fr) ELSE fr

\* xattrs_get_layout, lines 638-639: what free_data frees
FreeDataMutant == <<"free arr">>
FreeData == <<"free arr", "free ost">>

\* xattrs_get_layout, lines 636-646: out through free_data, with rc
LayoutReturn(fr, rc) ==
    /\ values' = fr.c.values
    /\ pairs' = fr.c.pairs
    /\ writes' = fr.c.writes
    /\ errno' = CleanupErrno(fr.c.errno, fr.c.errno)
    /\ events' = fr.events \o FreeData \o <<"free layout">>
    /\ data' = NoData
    /\ lay' = NoLay
    /\ CallbackStep(IF rc # 0 THEN rc ELSE fr.subcount, "xattrs_get_mdt_info")

\* what xattrs_get_layout goes on with after one component
ComponentDone(r, more) ==
    IF r.rc # 0 THEN LayoutReturn(r, r.rc)
    ELSE /\ ~r.data.oob
         /\ Commit(r.c)
         /\ events' = r.events
         /\ data' = r.data
         /\ lay' = [lay EXCEPT !.cur = @ + 1]
         /\ lpc' = IF more THEN "layout_component" ELSE "xattrs_fill_layout"
         /\ UNCHANGED <<count, ret>>

\* A write past the end of a workspace array is undefined: the process is
\* killed there and then, or goes on with the array as it was.
ComponentOverflow(r, more) ==
    /\ r.rc = 0
    /\ r.data.oob
    /\ Commit(r.c)
    /\ events' = r.events
    /\ data' = r.data
    /\ lay' = [lay EXCEPT !.cur = @ + 1]
    /\ lpc' \in {"killed",
                 IF more THEN "layout_component" ELSE "xattrs_fill_layout"}
    /\ UNCHANGED <<count, ret>>

\* xattrs_get_layout, lines 621-627: one component, through
\* llapi_layout_comp_iterate and xattrs_layout_iterator for a composite
\* layout, through fill_iterator_data for a plain one
LayoutComponent ==
    /\ lpc = "layout_component"
    /\ \E f \in CompFailures, k \in 0..1, pf \in PushChoices(1) :
         IF layout.composite
         THEN \/ ComponentDone(
                    ItNext(XattrsLayoutIterator(LayoutFrame,
                                                layout.comps[lay.cur],
                                                f, k, pf),
                           f, lay.cur < Len(layout.comps)),
                    lay.cur < Len(layout.comps))
              \/ ComponentOverflow(
                    ItNext(XattrsLayoutIterator(LayoutFrame,
                                                layout.comps[lay.cur],
                                                f, k, pf),
                           f, lay.cur < Len(layout.comps)),
                    lay.cur < Len(layout.comps))
         ELSE ComponentDone(
                  FillIteratorData(LayoutFrame, layout.comps[lay.cur], 0,
                                   f, k, pf),
                  FALSE)
    /\ UNCHANGED <<mode, is_symlink, is_dir, is_reg, layout, inode_xattrs>>
    /\ UNCHANGED notLustre

\* xattrs_fill_layout, lines 444-445
LayoutKeysMutant ==
    << "stripe_count", "stripe_size", "pattern", "flags", "pool",
       "mirror_id", "begin", "end" >>
LayoutKeys ==
    << "stripe_count", "stripe_size", "pattern", "comp_flags", "pool",
       "mirror_id", "begin", "end" >>

\* xattrs_fill_layout, lines 441-443
LayoutArrays(d) ==
    << d.stripe_count, d.stripe_size, d.pattern, d.flags, d.pool,
       d.mirror_id, d.begin, d.end >>

\* xattrs_fill_layout, lines 449-454: keys 1..i of the loop
RECURSIVE FillLayoutKeys(_, _, _, _, _)
FillLayoutKeys(c, pf, d, i, slot) ==
    IF i = 0 THEN c
    ELSE LET p == FillLayoutKeys(c, pf, d, i - 1, slot)
         IN  IF p.rc # 0 THEN p
             ELSE FillSequencePair(p, pf, LayoutKeys[i], LayoutArrays(d)[i],
                                   d.comp_index, slot + i - 1)

\* xattrs_fill_layout, lines 456-459: the "ost" pair, c0 before it and c
\* after
FillOst(fr, c0, c) ==
    [fr EXCEPT !.c = c,
               !.rc = IF c.rc # 0 THEN -1 ELSE fr.nb_xattrs + 1,
               !.events = IF Len(c.values) > Len(c0.values)
                          THEN Append(@, "push ost") ELSE @]

XattrsFillLayoutOst(fr, pf, c, slot) ==
    IF c.rc # 0 THEN [fr EXCEPT !.c = c, !.rc = -1]
    ELSE FillOst(fr, c,
                 FillSequencePair(c, pf, "ost", fr.data.ost, fr.data.ost_idx,
                                  slot + fr.nb_xattrs))

\* xattrs_fill_layout(&data, nb_xattrs, &pairs[slot])
XattrsFillLayout(fr, pf, slot) ==
    XattrsFillLayoutOst(fr, pf,
                        FillLayoutKeys(fr.c, pf, fr.data, fr.nb_xattrs, slot),
                        slot)

\* xattrs_get_layout, lines 629-634
FillDone(r) ==
    IF r.rc < 0 THEN LayoutReturn(r, r.rc)
    ELSE LayoutReturn([r EXCEPT !.subcount = @ + r.rc], 0)

\* xattrs_get_layout, lines 629-646
LayoutFill ==
    /\ lpc = "xattrs_fill_layout"
    /\ \E pf \in PushChoices(2 * lay.nb_xattrs + 2) :
         FillDone(XattrsFillLayout(LayoutFrame, pf, count + lay.subcount))
    /\ UNCHANGED <<mode, is_symlink, is_dir, is_reg, layout, inode_xattrs>>
    /\ UNCHANGED notLustre

\* ------------------------------------------------------------------------
\* xattrs_get_mdt_info
\* ------------------------------------------------------------------------

\* struct lmv_user_md, as the LL_IOC_LMV_GETSTRIPE ioctl fills it
Lums ==
    { [lum_stripe_count |-> 0, lum_hash_type |-> 0, lum_mds |-> <<>>],
      [lum_stripe_count |-> 2, lum_hash_type |-> 1, lum_mds |-> <<0, 3>>] }

\* xattrs_get_mdt_info
XattrsGetMdtInfo ==
    /\ lpc = "xattrs_get_mdt_info"
    /\ \/ /\ is_dir
          /\ \E e \in LlapiErrnos \cup {ENODATA} :
               \* the ioctl fails
               /\ errno' = e
               /\ CallbackStep(IF e = ENODATA THEN 0 ELSE -1,
                               "xattrs_get_retention")
               /\ UNCHANGED <<values, pairs, writes, events>>
       \/ /\ is_dir
          \* calloc fails
          /\ errno' = ENOMEM
          /\ CallbackStep(-1, "xattrs_get_retention")
          /\ UNCHANGED <<values, pairs, writes, events>>
       \/ /\ is_dir
          /\ \E lum \in Lums, pf \in PushChoices(4) :
               LET mdt_idx == [i \in 1..lum.lum_stripe_count |->
                                 create_uint32_value(lum.lum_mds[i])]
                   c1 == FillSequencePair(Ctx, pf, "mdt_idx", mdt_idx,
                                          lum.lum_stripe_count, count + 0)
                   c2 == FillUint32Pair(c1, pf, "mdt_hash", lum.lum_hash_type,
                                        count + 1)
                   c3 == FillUint32Pair(c2, pf, "mdt_count",
                                        lum.lum_stripe_count, count + 2)
                   c == IF c1.rc # 0 THEN c1 ELSE IF c2.rc # 0 THEN c2 ELSE c3
               IN  /\ Commit(c)
                   /\ events' = events \o <<"calloc mdt_idx", "free mdt_idx">>
                   /\ CallbackStep(IF c.rc # 0 THEN -1 ELSE 3,
                                   "xattrs_get_retention")
       \/ /\ ~is_dir /\ ~is_symlink
          /\ \E e \in LlapiErrnos :
               \* llapi_file_fget_mdtidx fails
               /\ errno' = e
               /\ CallbackStep(-1, "xattrs_get_retention")
               /\ UNCHANGED <<values, pairs, writes, events>>
       \/ /\ ~is_dir /\ ~is_symlink
          /\ \E mdt \in {1}, pf \in PushChoices(1) :
               LET c == FillInt32Pair(Ctx, pf, "mdt_index", mdt, count + 0)
               IN  /\ Commit(c)
                   /\ CallbackStep(IF c.rc # 0 THEN -1 ELSE 1,
                                   "xattrs_get_retention")
                   /\ UNCHANGED events
       \/ /\ ~is_dir /\ is_symlink
          /\ CallbackStep(0, "xattrs_get_retention")
          /\ UNCHANGED <<values, pairs, writes, errno, events>>
    /\ UNCHANGED <<mode, is_symlink, is_dir, is_reg, layout, data, lay,
                   inode_xattrs>>
    /\ UNCHANGED notLustre

\* ------------------------------------------------------------------------
\* xattrs_get_retention
\* ------------------------------------------------------------------------

IsDigit(b) == b \in 48..57

\* strtoul(tmp, &end, 10) on a string of a few bytes: the value of the
\* digits it starts with, and how many there are
RECURSIVE StrtoulFrom(_, _, _)
StrtoulFrom(tmp, i, acc) ==
    IF i <= Len(tmp) /\ IsDigit(tmp[i])
    THEN StrtoulFrom(tmp, i + 1, acc * 10 + (tmp[i] - 48))
    ELSE [result |-> acc, end |-> i - 1]

Strtoul(tmp) == StrtoulFrom(tmp, 1, 0)

\* the inode xattrs the loop of xattrs_get_retention does not skip
RetentionCandidates ==
    { i \in DOMAIN inode_xattrs :
        /\ inode_xattrs[i].key = XATTR_CCC_EXPIRES_AT
        /\ values[inode_xattrs[i].value].data[2] < UINT64_MAX_STR_LEN }

\* xattrs_get_retention, line 728
RetentionRejects(e, r, tmp) ==
    e # 0 \/ (r.result = 0 /\ r.end = 0) \/ r.end # Len(tmp)

\* xattrs_get_retention, then lustre_ns_xattrs_callback's return count
RetentionAndReturn ==
    /\ lpc = "xattrs_get_retention"
    /\ IF RetentionCandidates = {}
       THEN UNCHANGED <<values, errno, inode_xattrs>>
       ELSE LET i == CHOOSE x \in RetentionCandidates :
                        \A y \in RetentionCandidates : x <= y
                binary == values[inode_xattrs[i].value].data
                tmp == FirstN(values[binary[1]].data, binary[2])
                r == Strtoul(tmp)
            IN  IF RetentionRejects(errno, r, tmp)
                THEN UNCHANGED <<values, errno, inode_xattrs>>
                ELSE \E pf \in PushChoices(1) :
                       LET c == FillUint64Pair(
                                    [Ctx EXCEPT !.pairs = <<>>], pf,
                                    inode_xattrs[i].key, U64(r.result), 1)
                           new_pair == c.pairs[1]
                       IN  /\ values' = c.values
                           /\ errno' = c.errno
                           /\ inode_xattrs' =
                                  [inode_xattrs EXCEPT ![i] = new_pair]
    /\ ret' = count
    /\ lpc' = "done"
    /\ UNCHANGED <<mode, is_symlink, is_dir, is_reg, layout, pairs, writes,
                   count, data, lay, events>>
    /\ UNCHANGED notLustre

NextLustre ==
    \/ CallbackEnter
    \/ XattrsGetFid
    \/ XattrsGetHsm
    \/ LayoutBegin
    \/ LayoutComponent
    \/ LayoutFill
    \/ XattrsGetMdtInfo
    \/ RetentionAndReturn

SpecLustre == InitLustre /\ [][NextLustre]_vars

\* ------------------------------------------------------------------------
\* What lustre_ns_xattrs_callback leaves behind
\* ------------------------------------------------------------------------

\* the callback returned, and not -1
Succeeded == lpc = "done" /\ ret # -1

HasKey(key) == \E s \in DOMAIN pairs : pairs[s].key = key

SlotOf(key) == CHOOSE s \in DOMAIN pairs : pairs[s].key = key

\* the sequence value a pair points at in the arena: its count, and the
\* items its array holds
EmittedSequence(key) ==
    LET v == values[pairs[SlotOf(key)].value]
    IN  [count |-> v.data[2], items |-> values[v.data[1]].data]

\* how many times slot s of the output pairs was written
TimesWritten(s) == Cardinality({ i \in DOMAIN writes : writes[i] = s })

\* C7: when lustre_ns_xattrs_callback succeeds, what it returns is the
\* number of output pair slots it wrote; the slots written are
\* pairs[0..count-1], each of them once; and the count is at most 17.
C7_CountIsSlotsWritten ==
    Succeeded =>
        /\ ret = Len(writes)
        /\ DOMAIN pairs = 0..(ret - 1)
        /\ \A s \in 0..(ret - 1) : TimesWritten(s) = 1
        /\ \A i \in DOMAIN writes : writes[i] \in 0..(ret - 1)
        /\ ret <= 17

\* a regular file with a composite layout: 1 + 2 + 13 + 1 pairs
C7_Witness ==
    /\ Succeeded
    /\ mode = "reg"
    /\ layout.composite
    /\ ret = 17
    /\ Len(writes) = 17

CallbackKeys ==
    { "fid", "hsm_state", "hsm_archive_id", "flags", "magic", "gen",
      "mirror_count", "stripe_count", "stripe_size", "pattern", "comp_flags",
      "pool", "mirror_id", "begin", "end", "ost", "mdt_idx", "mdt_hash",
      "mdt_count", "mdt_index" }

\* C8: the pairs one successful call of lustre_ns_xattrs_callback wrote
\* carry pairwise distinct keys, all of them among the twenty keys the
\* extractors know.
C8_DistinctKeys ==
    Succeeded =>
        /\ \A s \in DOMAIN pairs, t \in DOMAIN pairs :
              s # t => pairs[s].key # pairs[t].key
        /\ \A s \in DOMAIN pairs : pairs[s].key \in CallbackKeys

\* a striped directory with a composite layout: the layout's keys and the
\* three mdt keys in one pass
C8_Witness ==
    /\ Succeeded
    /\ mode = "dir"
    /\ HasKey("flags")
    /\ HasKey("comp_flags")
    /\ HasKey("mirror_id")
    /\ HasKey("mdt_count")
    /\ ret = 15

\* a component is initialized when LCME_FL_INIT is among its flags
IsInitialized(comp) == BitAnd(comp.flags, LCME_FL_INIT) # 0

\* what a component has to contribute to "ost": the OST indices retrieved
\* for it, or one placeholder -1
ExpectedOstOf(comp) ==
    IF IsInitialized(comp) \/ ~layout.composite
    THEN [i \in 1..OstRetrieved(comp) |->
            create_uint64_value(U64(comp.objs[i]))]
    ELSE <<create_uint64_value(U64Minus1)>>

RECURSIVE ExpectedOst(_, _)
ExpectedOst(comps, n) ==
    IF n = 0 THEN <<>>
    ELSE ExpectedOst(comps, n - 1) \o ExpectedOstOf(comps[n])

\* C9: the "ost" sequence of a successful extraction is, in component
\* order, each component's retrieved OST indices for an initialized
\* component or a plain layout, and one placeholder -1 for a component of a
\* composite layout that is not initialized; its count is the number of
\* its items.
C9_OstInDiscoveryOrder ==
    (Succeeded /\ HasKey("ost")) =>
        /\ EmittedSequence("ost").items
              = ExpectedOst(layout.comps, Len(layout.comps))
        /\ EmittedSequence("ost").count = Len(EmittedSequence("ost").items)

\* what the i-th per-component key has to hold for a component; of the pool
\* only that it is a string
ExpectedItem(i, comp, item) ==
    CASE i = 1 -> item = create_uint64_value(comp.stripe_count)
      [] i = 2 -> item = create_uint64_value(comp.stripe_size)
      [] i = 3 -> item = create_uint64_value(comp.pattern)
      [] i = 4 -> item = create_uint32_value(comp.flags)
      [] i = 5 -> item.type = "STRING"
      [] i = 6 -> item = create_uint32_value(comp.mirror_id)
      [] i = 7 -> item = create_uint64_value(comp.begin)
      [] i = 8 -> item = create_uint64_value(comp.end)

\* C10: after a successful layout extraction each per-component sequence
\* (five of them for a plain layout, eight for a composite one) has one
\* item per component of the layout, in component order, holding what was
\* read for that component.
C10_OneItemPerComponent ==
    (Succeeded /\ HasKey("ost")) =>
        \A i \in 1..(IF layout.composite THEN 8 ELSE 5) :
            /\ HasKey(LayoutKeys[i])
            /\ EmittedSequence(LayoutKeys[i]).count = Len(layout.comps)
            /\ Len(EmittedSequence(LayoutKeys[i]).items) = Len(layout.comps)
            /\ \A j \in 1..Len(layout.comps) :
                  ExpectedItem(i, layout.comps[j],
                               EmittedSequence(LayoutKeys[i]).items[j])

\* a string, binary or sequence value whose payload pointer is NULL
NullPayload(v) ==
    v.type \in {"STRING", "BINARY", "SEQUENCE"} /\ v.data[1] = 0

\* no pair of the list points at NULL
NoNullPair(prs) == \A s \in DOMAIN prs : prs[s].value # 0

\* no value the arena holds, by itself or in an array, has a NULL payload
NoNullPayload ==
    \A n \in DOMAIN values :
        /\ values[n].type \notin {"bytes", "values"}
              => ~NullPayload(values[n])
        /\ values[n].type = "values"
              => \A j \in DOMAIN values[n].data :
                    ~NullPayload(values[n].data[j])

\* C11: a call of lustre_ns_xattrs_callback during which an
\* rbh_sstack_push failed returns -1: a successful call leaves no pair
\* with a NULL value, in the output pairs or in the inode xattrs, and no
\* string, binary or sequence value whose payload is NULL.
C11_NoSwallowedPushFailure ==
    Succeeded =>
        /\ NoNullPair(pairs)
        /\ NoNullPair(inode_xattrs)
        /\ NoNullPayload

\* the inode xattrs as the callback found them: the i-th pair's value is
\* the arena's 2i-th push and its bytes the push before
OriginalBytes(i) == values[2 * i - 1].data

\* a decimal unsigned integer of fewer than UINT64_MAX_STR_LEN bytes
WellFormedExpiry(i) ==
    /\ inode_xattrs[i].key = XATTR_CCC_EXPIRES_AT
    /\ Len(OriginalBytes(i)) < UINT64_MAX_STR_LEN
    /\ Len(OriginalBytes(i)) > 0
    /\ \A j \in DOMAIN OriginalBytes(i) : IsDigit(OriginalBytes(i)[j])

RECURSIVE DecimalValue(_, _)
DecimalValue(bytes, n) ==
    IF n = 0 THEN 0 ELSE 10 * DecimalValue(bytes, n - 1) + (bytes[n] - 48)

\* the first well-formed expiry of the list, 0 if there is none
FirstExpiry ==
    IF \E i \in DOMAIN inode_xattrs : WellFormedExpiry(i)
    THEN CHOOSE i \in DOMAIN inode_xattrs :
            /\ WellFormedExpiry(i)
            /\ \A j \in DOMAIN inode_xattrs : WellFormedExpiry(j) => i <= j
    ELSE 0

\* C12: after a successful call, the first inode xattr
\* "user.ccc_expires_at" that is a well-formed decimal number of fewer than
\* 22 bytes has been replaced in place by a pair of the same key whose value
\* is the UINT64 of that number, whatever the extractors did before; every
\* other inode xattr is as it was.
C12_ExpiryRewritten ==
    Succeeded =>
        \A i \in DOMAIN inode_xattrs :
            IF i = FirstExpiry
            THEN /\ inode_xattrs[i].value \in DOMAIN values
                 /\ values[inode_xattrs[i].value]
                       = create_uint64_value(
                             U64(DecimalValue(OriginalBytes(i),
                                              Len(OriginalBytes(i)))))
            ELSE inode_xattrs[i].value = 2 * i


\* the allocations of the layout workspace that failed
FailedAllocations ==
    { i \in DOMAIN events :
        events[i] \in {"calloc failed", "malloc failed", "realloc failed"} }

\* C13: when the calloc or the malloc of init_iterator_data, or the realloc
\* of iter_data_ost_try_resize, fails, lustre_ns_xattrs_callback returns -1
\* and its caller finds ENOMEM in errno.
C13_AllocationFailureIsENOMEM ==
    (lpc = "done" /\ FailedAllocations # {}) =>
        /\ ret = -1
        /\ errno = ENOMEM

\* C14: every write into a workspace array of the layout extraction is
\* within what was allocated: a per-key array is written below nb_comp and
\* the OST array below ost_size, so comp_index <= nb_comp and
\* ost_idx <= ost_size at all times.
C14_WorkspaceWritesInBounds ==
    /\ ~data.oob
    /\ data.comp_index <= lay.nb_comp
    /\ data.ost_idx <= data.ost_size

\* how many times something was done to the layout or its workspace
Count(e) == Cardinality({ i \in DOMAIN events : events[i] = e })

\* whether events a and b are both there, every a before every b
Before(a, b) ==
    \A i \in DOMAIN events, j \in DOMAIN events :
        (events[i] = a /\ events[j] = b) => i < j

\* xattrs_get_layout got a layout and has returned
LayoutReturned ==
    /\ Count("get layout") = 1
    /\ lpc \in {"xattrs_get_mdt_info", "xattrs_get_retention", "done"}

\* the step that copies the OST workspace into the arena
PushesOst == Count("push ost")' > Count("push ost")

\* C15: once xattrs_get_layout has returned after getting a layout, the
\* layout was freed once, and the per-key arrays and the OST workspace were
\* each freed once if they were allocated and not at all if they were not;
\* nothing is freed twice or before it is allocated; the OST workspace is
\* copied into the arena at most once, by a step taken when every
\* component has been processed, and before it is freed.
C15_FreedOncePushedOnce ==
    /\ [](/\ Count("free layout") <= Count("get layout")
          /\ Count("free arr") <= Count("calloc arr")
          /\ Count("free ost") <= Count("malloc ost")
          /\ Count("calloc arr") <= 1
          /\ Count("malloc ost") <= 1
          /\ Count("push ost") <= 1
          /\ Before("calloc arr", "free arr")
          /\ Before("malloc ost", "free ost")
          /\ Before("realloc ost", "free ost")
          /\ Before("push ost", "free ost")
          /\ Before("free arr", "free layout")
          /\ LayoutReturned =>
                /\ Count("free layout") = 1
                /\ Count("free arr") = Count("calloc arr")
                /\ Count("free ost") = Count("malloc ost"))
    /\ [][PushesOst => /\ lpc = "xattrs_fill_layout"
                       /\ lay.cur = Len(layout.comps) + 1]_vars

\* a successful extraction that grew the OST workspace, copied it into the
\* arena and freed it
C15_Witness ==
    /\ Succeeded
    /\ Count("realloc ost") >= 1
    /\ Count("push ost") = 1
    /\ Count("free ost") = 1
    /\ Count("free arr") = 1
    /\ Count("free layout") = 1

=============================================================================
